---- MODULE Spec2Model ----
(***************************************************************************)
(* Model of pbipy's Admin facade (src/pbipy/admin.py) and of the Import    *)
(* entity constructor (src/pbipy/imports.py).                              *)
(*                                                                         *)
(* One call of an Admin method, or one construction of an Import, is one   *)
(* action: it goes from pc = "idle" to pc = "done" and leaves behind the   *)
(* arguments it was called with, the transport calls it made (log), the    *)
(* response the transport gave and the value or exception that reached     *)
(* the caller.  Finish is the caller dropping that outcome.                *)
(*                                                                         *)
(* Python values are records [t, k, v, n]: t is the type tag, k the class  *)
(* name of an object, v a string value or an object's id, n an integer     *)
(* or boolean value.  Mappings (JSON objects) are functions over DictKeys  *)
(* whose absent keys hold NoKey.  Strings built with f-strings are         *)
(* sequences of tokens, so concatenation is \o and a formatted value is    *)
(* what str() of that value gives.                                         *)
(***************************************************************************)
EXTENDS Integers, Sequences, FiniteSets, TLC

\* Longest response sequence the transport returns.
MaxLen == 2

----------------------------------------------------------------------------
\* Python values

Val(t, k, v, n) == [t |-> t, k |-> k, v |-> v, n |-> n]

None == Val("none", "", "", 0)

\* Marks a key that a mapping does not hold, or a keyword argument that a
\* call does not pass.
NoKey == Val("nokey", "", "", 0)

Str(s) == Val("str", "", s, 0)

Num(i) == Val("int", "", "", i)

Bool(b) == Val("bool", "", "", IF b THEN 1 ELSE 0)

\* An instance of class k whose id attribute is the string i.
Obj(k, i) == Val("obj", k, i, 0)

isinstance(x, k) == x.t = "obj" /\ x.k = k

\* Python truth value: None, "" and 0 are false, every instance is true.
Truthy(x) ==
    \/ x.t = "obj"
    \/ x.t = "str" /\ x.v # ""
    \/ x.t \in {"int", "bool"} /\ x.n # 0

\* What an f-string puts in place of {x}: a str is inserted as is, None as
\* the word None, an instance as its repr (class name and fields).
Format(x) ==
    IF x.t = "str" THEN (IF x.v = "" THEN <<>> ELSE <<x.v>>)
    ELSE IF x.t = "obj" THEN <<"<", x.k, " id='", x.v, "'>">>
    ELSE IF x.t = "int" THEN <<"int">>
    ELSE <<"None">>

----------------------------------------------------------------------------
\* Mappings

DictKeys == {"id", "workspaceId", "objectId"}

EmptyDict == [key \in DictKeys |-> NoKey]

\* dict.get(key, default)
Get(d, key, default) == IF d[key] = NoKey THEN default ELSE d[key]

\* The keys a mapping holds, which is what iterating over it yields.
Keys(d) == {key \in DictKeys : d[key] # NoKey}

\* The elements of a list response: each may carry an id and a workspaceId.
Elements ==
    {[key \in DictKeys |->
        IF key = "id" THEN i ELSE IF key = "workspaceId" THEN w ELSE NoKey] :
        i \in {NoKey, Str("a"), Str("b")}, w \in {NoKey, Str("H")}}

\* The exported dataflow document: it may carry an objectId.
Documents ==
    {[key \in DictKeys |-> IF key = "objectId" THEN o ELSE NoKey] :
        o \in {NoKey, Str("df1")}}

SeqsUpTo(S, n) == UNION {[1..m -> S] : m \in 0..n}

\* What the transport hands back: a failure, a sequence of mappings or one
\* mapping.
RawVal(t, items, d) == [t |-> t, items |-> items, d |-> d]

NoRaw == RawVal("none", <<>>, EmptyDict)

TransportFailure == RawVal("error", <<>>, EmptyDict)

ListRaw(items) == RawVal("list", items, EmptyDict)

DictRaw(d) == RawVal("dict", <<>>, d)

Responses ==
    {TransportFailure}
    \cup {ListRaw(s) : s \in SeqsUpTo(Elements, MaxLen)}
    \cup {DictRaw(d) : d \in Elements \cup Documents}

----------------------------------------------------------------------------
\* Requests

BASE_URL == <<"BASE_URL">>

ParamKeys == {"$expand", "$filter", "$skip", "$top"}

NoParams == [key \in ParamKeys |-> NoKey]

PayloadKeys == {"name", "keyVaultKeyIdentifier", "activate", "isDefault"}

NoPayload == [key \in PayloadKeys |-> NoKey]

\* One call on the session: the method, the address and what goes with it.
Request(method, resource, params, payload) ==
    [method |-> method, resource |-> resource, params |-> params,
     payload |-> payload]

\* RequestsMixin.get_raw: one GET on the session.
get_raw(resource, params) == <<Request("GET", resource, params, NoPayload)>>

\* RequestsMixin.post_raw: one POST on the session.
post_raw(resource, payload) == <<Request("POST", resource, NoParams, payload)>>

----------------------------------------------------------------------------
\* Entities and outcomes

\* The arguments an entity constructor is called with (NoKey: not passed).
Entity(kind, id, group_id, dashboard_id, raw) ==
    [kind |-> kind, id |-> id, group_id |-> group_id,
     dashboard_id |-> dashboard_id, raw |-> raw]

NoEntity == Entity("", NoKey, NoKey, NoKey, EmptyDict)

\* What reaches the caller: an exception, a list of entities, the raw
\* response, one entity, or a class object.
Outcome(t, err, items, raw, ent, cls) ==
    [t |-> t, err |-> err, items |-> items, raw |-> raw, ent |-> ent,
     cls |-> cls]

NoOutcome == Outcome("none", "", <<>>, NoRaw, NoEntity, "")

Raise(err) == Outcome("error", err, <<>>, NoRaw, NoEntity, "")

ReturnList(items) == Outcome("list", "", items, NoRaw, NoEntity, "")

ReturnRaw(raw) == Outcome("raw", "", <<>>, raw, NoEntity, "")

ReturnEntity(ent) == Outcome("entity", "", <<>>, NoRaw, ent, "")

ReturnClass(cls) == Outcome("class", "", <<>>, NoRaw, NoEntity, cls)

\* The exception get_raw lets through when the call fails.
TransportError == "TransportError"

\* The exception Python raises for x.get(...) on a str or a list.
AttributeError == "AttributeError"

\* [f(x) for x in raw], where f calls x.get and built is f over the elements
\* of a sequence: a sequence is mapped element by element; a mapping is
\* iterated over its keys, which are strings and have no get, so a mapping
\* with keys raises and one without gives the empty list.
Comprehension(raw, built) ==
    IF raw.t = "list" THEN ReturnList(built)
    ELSE IF Keys(raw.d) = {} THEN ReturnList(<<>>)
    ELSE Raise(AttributeError)

\* The outcome of an operation that returns what get_raw returned.
Passthrough(raw) ==
    IF raw.t = "error" THEN Raise(TransportError) ELSE ReturnRaw(raw)

----------------------------------------------------------------------------
\* Inputs

ArgNames ==
    {"app", "dashboard", "dataflow", "dataset", "group", "expand", "filter",
     "skip", "top", "name", "key_vault_identifier", "activate", "is_default",
     "id", "group_id", "raw"}

\* No argument passed; the raw argument is a payload, not a scalar.
NoArgs == [a \in ArgNames |-> IF a = "raw" THEN NoRaw ELSE NoKey]

\* Identifiers are non-empty strings.
Refs(kind) == {Str("x1"), Obj(kind, "x1"), Obj(kind, "x2")}

Groups == {Str("G"), Obj("Group", "G")}

OptGroups == {None} \cup Groups

OptStrs(s) == {None, Str(s)}

OptInts == {None, Num(0), Num(5)}

Bools == {Bool(TRUE), Bool(FALSE)}

\* Raw payloads an Import may be constructed with: none, or any mapping.
ImportRaws == {NoRaw} \cup {DictRaw(d) : d \in Elements}

----------------------------------------------------------------------------
\* State

VARIABLES
    session,        \* Admin.session
    resource_path,  \* Admin.resource_path
    base_path,      \* Admin.base_path
    pc,             \* "idle": no call in progress; "done": a call has ended
    op,             \* the operation that ended
    arg,            \* its arguments
    log,            \* the calls it made on the session
    response,       \* what the transport answered
    result,         \* what reached the caller
    imp             \* the Import that was constructed

vars ==
    <<session, resource_path, base_path, pc, op, arg, log, response, result,
      imp>>

admin == <<session, resource_path, base_path>>

\* The fields of an Import instance.
ImportObj(id, group_id, rpath, bpath, raw, loaded) ==
    [id |-> id, group_id |-> group_id, resource_path |-> rpath,
     base_path |-> bpath, raw |-> raw, loaded |-> loaded]

NoImport == ImportObj(NoKey, NoKey, <<>>, <<>>, NoRaw, FALSE)

Init ==
    /\ session = "session"
    /\ resource_path = <<"/admin">>
    /\ base_path = BASE_URL \o <<"/admin">>
    /\ pc = "idle"
    /\ op = ""
    /\ arg = NoArgs
    /\ log = <<>>
    /\ response = NoRaw
    /\ result = NoOutcome
    /\ imp = NoImport

\* The end of a call: what it was called with, asked for, got and gave.
Ends(name, a, calls, raw, out) ==
    /\ pc = "idle"
    /\ pc' = "done"
    /\ op' = name
    /\ arg' = a
    /\ log' = calls
    /\ response' = raw
    /\ result' = out
    /\ UNCHANGED admin

----------------------------------------------------------------------------
\* Admin

\* Admin.add_encryption_key
add_encryption_key ==
    /\ pc = "idle"
    /\ \E name \in {Str("k")}, key_vault_identifier \in {Str("uri")},
       activate \in Bools, is_default \in Bools,
       raw \in {TransportFailure} \cup {DictRaw(d) : d \in Elements} :
        LET payload ==
                [key \in PayloadKeys |->
                    IF key = "name" THEN name
                    ELSE IF key = "keyVaultKeyIdentifier"
                    THEN key_vault_identifier
                    ELSE IF key = "activate" THEN activate
                    ELSE is_default]
            resource == base_path \o <<"/tenantKeys">>
        IN  Ends("add_encryption_key",
                 [NoArgs EXCEPT !["name"] = name,
                                !["key_vault_identifier"] = key_vault_identifier,
                                !["activate"] = activate,
                                !["is_default"] = is_default],
                 post_raw(resource, payload), raw, Passthrough(raw))
        /\ UNCHANGED imp

\* The list comprehension of Admin.apps.
apps_list(raw) ==
    Comprehension(raw,
        [i \in 1..Len(raw.items) |->
            Entity("App", Get(raw.items[i], "id", None), NoKey, NoKey, raw.items[i])])

\* Admin.apps
apps ==
    /\ pc = "idle"
    /\ \E top \in OptInts, raw \in Responses :
        LET resource == base_path \o <<"/apps">>
            params == [NoParams EXCEPT !["$top"] = top]
        IN  Ends("apps", [NoArgs EXCEPT !["top"] = top],
                 get_raw(resource, params), raw,
                 IF raw.t = "error" THEN Raise(TransportError)
                 ELSE apps_list(raw))
        /\ UNCHANGED imp

\* Admin.app_users
app_users ==
    /\ pc = "idle"
    /\ \E app \in Refs("App"), raw \in Responses :
        LET app_id == IF isinstance(app, "App") THEN Str(app.v) ELSE app
            resource ==
                base_path \o <<"/apps/">> \o Format(app_id) \o <<"/users">>
        IN  Ends("app_users", [NoArgs EXCEPT !["app"] = app],
                 get_raw(resource, NoParams), raw, Passthrough(raw))
        /\ UNCHANGED imp

\* The list comprehension of Admin.dashboards.
dashboards_list(raw) ==
    Comprehension(raw,
        [i \in 1..Len(raw.items) |->
            Entity("Dashboard", Get(raw.items[i], "id", None), NoKey, NoKey,
                   raw.items[i])])

\* The params of Admin.dashboards with skip and top taking each other's
\* place.
dashboards_params_swapped(expand, filter, skip, top) ==
    [key \in ParamKeys |->
        IF key = "$expand" THEN expand
        ELSE IF key = "$filter" THEN filter
        ELSE IF key = "$skip" THEN top
        ELSE skip]

\* The params of Admin.dashboards: one entry per option, holding what the
\* caller passed, None included.
dashboards_params(expand, filter, skip, top) ==
    [key \in ParamKeys |->
        IF key = "$expand" THEN expand
        ELSE IF key = "$filter" THEN filter
        ELSE IF key = "$skip" THEN skip
        ELSE top]

\* Admin.dashboards
dashboards ==
    /\ pc = "idle"
    /\ \E group \in OptGroups, expand \in OptStrs("tiles"),
       filter \in OptStrs("f"), skip \in OptInts, top \in OptInts,
       raw \in Responses :
        LET group_id ==
                IF isinstance(group, "Group") THEN Str(group.v) ELSE group
            path ==
                IF Truthy(group)
                THEN <<"/groups/">> \o Format(group_id) \o <<"/dashboards">>
                ELSE <<"/dashboards">>
            resource == base_path \o path
            params == dashboards_params(expand, filter, skip, top)
        IN  Ends("dashboards",
                 [NoArgs EXCEPT !["group"] = group, !["expand"] = expand,
                                !["filter"] = filter, !["skip"] = skip,
                                !["top"] = top],
                 get_raw(resource, params), raw,
                 IF raw.t = "error" THEN Raise(TransportError)
                 ELSE dashboards_list(raw))
        /\ UNCHANGED imp

\* Admin.dashboard_subscriptions
dashboard_subscriptions ==
    /\ pc = "idle"
    /\ \E dashboard \in Refs("Dashboard"), raw \in Responses :
        LET dashboard_id ==
                IF isinstance(dashboard, "Dashboard") THEN Str(dashboard.v)
                ELSE dashboard
            resource ==
                base_path \o <<"/dashboards/">> \o Format(dashboard_id)
                \o <<"/subscriptions">>
        IN  Ends("dashboard_subscriptions",
                 [NoArgs EXCEPT !["dashboard"] = dashboard],
                 get_raw(resource, NoParams), raw, Passthrough(raw))
        /\ UNCHANGED imp

\* The list comprehension of Admin.dashboard_tiles: each Tile is handed the
\* dashboard argument itself.
dashboard_tiles_list(raw, dashboard) ==
    Comprehension(raw,
        [i \in 1..Len(raw.items) |->
            Entity("Tile", Get(raw.items[i], "id", None), NoKey, dashboard,
                   raw.items[i])])

\* Admin.dashboard_tiles
dashboard_tiles ==
    /\ pc = "idle"
    /\ \E dashboard \in Refs("Dashboard"), raw \in Responses :
        LET dashboard_id ==
                IF isinstance(dashboard, "Dashboard") THEN Str(dashboard.v)
                ELSE dashboard
            resource ==
                base_path \o <<"/dashboards/">> \o Format(dashboard_id)
                \o <<"/tiles">>
        IN  Ends("dashboard_tiles",
                 [NoArgs EXCEPT !["dashboard"] = dashboard],
                 get_raw(resource, NoParams), raw,
                 IF raw.t = "error" THEN Raise(TransportError)
                 ELSE dashboard_tiles_list(raw, dashboard))
        /\ UNCHANGED imp

\* Admin.dashboard_users
dashboard_users ==
    /\ pc = "idle"
    /\ \E dashboard \in Refs("Dashboard"), raw \in Responses :
        LET dashboard_id ==
                IF isinstance(dashboard, "Dashboard") THEN Str(dashboard.v)
                ELSE dashboard
            resource ==
                base_path \o <<"/dashboards/">> \o Format(dashboard_id)
                \o <<"/users">>
        IN  Ends("dashboard_users",
                 [NoArgs EXCEPT !["dashboard"] = dashboard],
                 get_raw(resource, NoParams), raw, Passthrough(raw))
        /\ UNCHANGED imp

\* The tail of Admin.dataflow: raw.get("objectId") raises on a sequence,
\* and gives None for a mapping without that key.
dataflow_entity(raw) ==
    IF raw.t = "list" THEN Raise(AttributeError)
    ELSE ReturnEntity(
            Entity("Dataflow", Get(raw.d, "objectId", None), None, NoKey,
                   raw.d))

\* Admin.dataflow: a Dataflow instance makes the method return the class
\* Dataflow at once; a string is fetched and wrapped.
dataflow ==
    /\ pc = "idle"
    /\ \E df \in Refs("Dataflow"), raw \in Responses :
        IF isinstance(df, "Dataflow")
        THEN /\ Ends("dataflow", [NoArgs EXCEPT !["dataflow"] = df],
                     <<>>, NoRaw, ReturnClass("Dataflow"))
             /\ UNCHANGED imp
        ELSE LET resource ==
                    base_path \o <<"/dataflows/">> \o Format(df)
                    \o <<"/export">>
             IN  /\ Ends("dataflow", [NoArgs EXCEPT !["dataflow"] = df],
                         get_raw(resource, NoParams), raw,
                         IF raw.t = "error" THEN Raise(TransportError)
                         ELSE dataflow_entity(raw))
                 /\ UNCHANGED imp

\* The list comprehension of Admin.dataflows.
dataflows_list(raw, group_id) ==
    Comprehension(raw,
        [i \in 1..Len(raw.items) |->
            Entity("Dataflow", Get(raw.items[i], "id", None),
                   Get(raw.items[i], "workspaceId", group_id), NoKey,
                   raw.items[i])])

\* Admin.dataflows
dataflows ==
    /\ pc = "idle"
    /\ \E group \in OptGroups, filter \in OptStrs("f"), skip \in OptInts,
       top \in OptInts, raw \in Responses :
        LET group_id ==
                IF ~Truthy(group) THEN None
                ELSE IF isinstance(group, "Group") THEN Str(group.v)
                ELSE group
            path ==
                IF Truthy(group)
                THEN <<"/groups/">> \o Format(group_id) \o <<"/dataflows">>
                ELSE <<"/dataflows">>
            params ==
                [key \in ParamKeys |->
                    IF key = "$filter" THEN filter
                    ELSE IF key = "$skip" THEN skip
                    ELSE IF key = "$top" THEN top
                    ELSE NoKey]
            resource == base_path \o path
        IN  Ends("dataflows",
                 [NoArgs EXCEPT !["group"] = group, !["filter"] = filter,
                                !["skip"] = skip, !["top"] = top],
                 get_raw(resource, params), raw,
                 IF raw.t = "error" THEN Raise(TransportError)
                 ELSE dataflows_list(raw, group_id))
        /\ UNCHANGED imp

\* Admin.dataflow_datasources
dataflow_datasources ==
    /\ pc = "idle"
    /\ \E df \in Refs("Dataflow"), raw \in Responses :
        LET dataflow_id ==
                IF isinstance(df, "Dataflow") THEN Str(df.v) ELSE df
            resource ==
                base_path \o <<"/dataflows/">> \o Format(dataflow_id)
                \o <<"/datasources">>
        IN  Ends("dataflow_datasources",
                 [NoArgs EXCEPT !["dataflow"] = df],
                 get_raw(resource, NoParams), raw, Passthrough(raw))
        /\ UNCHANGED imp

\* Admin.dataflow_upstream_dataflows
dataflow_upstream_dataflows ==
    /\ pc = "idle"
    /\ \E df \in Refs("Dataflow"), group \in Groups, raw \in Responses :
        LET dataflow_id ==
                IF isinstance(df, "Dataflow") THEN Str(df.v) ELSE df
            group_id ==
                IF isinstance(group, "Group") THEN Str(group.v) ELSE group
            resource ==
                base_path \o <<"/groups/">> \o Format(group_id)
                \o <<"/dataflows/">> \o Format(dataflow_id)
                \o <<"/upstreamDataflows">>
        IN  Ends("dataflow_upstream_dataflows",
                 [NoArgs EXCEPT !["dataflow"] = df, !["group"] = group],
                 get_raw(resource, NoParams), raw, Passthrough(raw))
        /\ UNCHANGED imp

\* Admin.dataflow_users
dataflow_users ==
    /\ pc = "idle"
    /\ \E df \in Refs("Dataflow"), raw \in Responses :
        LET dataflow_id ==
                IF isinstance(df, "Dataflow") THEN Str(df.v) ELSE df
            resource ==
                base_path \o <<"/dataflows/">> \o Format(dataflow_id)
                \o <<"/users">>
        IN  Ends("dataflow_users", [NoArgs EXCEPT !["dataflow"] = df],
                 get_raw(resource, NoParams), raw, Passthrough(raw))
        /\ UNCHANGED imp

\* The list comprehension of Admin.datasets, skipping elements whose id was
\* already seen.
datasets_list_dedup(raw, group_id) ==
    LET Fresh(i) ==
            \A j \in 1..(i - 1) :
                Get(raw.items[j], "id", None) # Get(raw.items[i], "id", None)
        Build(dataset_js) ==
            Entity("Dataset", Get(dataset_js, "id", None),
                   Get(dataset_js, "workspaceId", group_id), NoKey,
                   dataset_js)
    IN  IF raw.t = "list"
        THEN ReturnList(
                SelectSeq([i \in 1..Len(raw.items) |->
                              IF Fresh(i) THEN Build(raw.items[i])
                              ELSE NoEntity],
                          LAMBDA e : e # NoEntity))
        ELSE Comprehension(raw, <<>>)

\* The list comprehension of Admin.datasets.
datasets_list(raw, group_id) ==
    Comprehension(raw,
        [i \in 1..Len(raw.items) |->
            Entity("Dataset", Get(raw.items[i], "id", None),
                   Get(raw.items[i], "workspaceId", group_id), NoKey,
                   raw.items[i])])

\* The params of Admin.datasets without the removal of $expand.
datasets_params_kept(group, expand, filter, skip, top) ==
    [key \in ParamKeys |->
        IF key = "$expand" THEN expand
        ELSE IF key = "$filter" THEN filter
        ELSE IF key = "$skip" THEN skip
        ELSE top]

\* The params of Admin.datasets: one entry per option, holding what the
\* caller passed, None included; $expand is popped when group is None.
datasets_params(group, expand, filter, skip, top) ==
    [key \in ParamKeys |->
        IF key = "$expand" THEN (IF group = None THEN NoKey ELSE expand)
        ELSE IF key = "$filter" THEN filter
        ELSE IF key = "$skip" THEN skip
        ELSE top]

\* Admin.datasets
datasets ==
    /\ pc = "idle"
    /\ \E group \in OptGroups, expand \in OptStrs("tables"),
       filter \in OptStrs("f"), skip \in OptInts, top \in OptInts,
       raw \in Responses :
        LET params == datasets_params(group, expand, filter, skip, top)
            group_id ==
                IF ~Truthy(group) THEN None
                ELSE IF isinstance(group, "Group") THEN Str(group.v)
                ELSE group
            path ==
                IF Truthy(group)
                THEN <<"/groups/">> \o Format(group_id) \o <<"/datasets">>
                ELSE <<"/datasets">>
            resource == base_path \o path
        IN  Ends("datasets",
                 [NoArgs EXCEPT !["group"] = group, !["expand"] = expand,
                                !["filter"] = filter, !["skip"] = skip,
                                !["top"] = top],
                 get_raw(resource, params), raw,
                 IF raw.t = "error" THEN Raise(TransportError)
                 ELSE datasets_list(raw, group_id))
        /\ UNCHANGED imp

\* Admin.dataset_users
dataset_users ==
    /\ pc = "idle"
    /\ \E dataset \in Refs("Dataset"), raw \in Responses :
        LET dataset_id ==
                IF isinstance(dataset, "Dataset") THEN Str(dataset.v)
                ELSE dataset
            resource ==
                base_path \o <<"/datasets/">> \o Format(dataset_id)
                \o <<"/users">>
        IN  Ends("dataset_users", [NoArgs EXCEPT !["dataset"] = dataset],
                 get_raw(resource, NoParams), raw, Passthrough(raw))
        /\ UNCHANGED imp

\* Admin.datasets_upstream_dataflows
datasets_upstream_dataflows ==
    /\ pc = "idle"
    /\ \E group \in Groups, raw \in Responses :
        LET group_id ==
                IF isinstance(group, "Group") THEN Str(group.v) ELSE group
            resource ==
                base_path \o <<"/groups/">> \o Format(group_id)
                \o <<"/datasets/upstreamDataflows">>
        IN  Ends("datasets_upstream_dataflows",
                 [NoArgs EXCEPT !["group"] = group],
                 get_raw(resource, NoParams), raw, Passthrough(raw))
        /\ UNCHANGED imp

----------------------------------------------------------------------------
\* Import

\* Resource._load_from_raw: keeps the payload as the entity's raw cache.
load_from_raw(self, raw) == [self EXCEPT !.raw = raw, !.loaded = TRUE]

\* Import.__init__: a false group_id becomes None; both paths are
\* f-strings over self.group_id and self.id; a true raw is loaded.
Import_init ==
    /\ pc = "idle"
    /\ \E id \in {Str("i1"), Str("i2")}, group_id \in OptGroups,
       raw \in ImportRaws :
        LET self_group_id == IF Truthy(group_id) THEN group_id ELSE None
            rpath ==
                IF Truthy(self_group_id)
                THEN <<"/groups/">> \o Format(self_group_id)
                     \o <<"/imports/">> \o Format(id)
                ELSE <<"/imports/">> \o Format(id)
            self ==
                ImportObj(id, self_group_id, rpath, BASE_URL \o rpath, NoRaw,
                          FALSE)
        IN  /\ Ends("Import",
                    [NoArgs EXCEPT !["id"] = id, !["group_id"] = group_id,
                                   !["raw"] = raw],
                    <<>>, NoRaw, NoOutcome)
            /\ imp' = IF raw.t = "dict" /\ Keys(raw.d) # {}
                      THEN load_from_raw(self, raw) ELSE self

----------------------------------------------------------------------------

\* The caller lets go of the outcome of the call.
Finish ==
    /\ pc = "done"
    /\ pc' = "idle"
    /\ op' = ""
    /\ arg' = NoArgs
    /\ log' = <<>>
    /\ response' = NoRaw
    /\ result' = NoOutcome
    /\ imp' = NoImport
    /\ UNCHANGED admin

Next ==
    \/ add_encryption_key
    \/ apps
    \/ app_users
    \/ dashboards
    \/ dashboard_subscriptions
    \/ dashboard_tiles
    \/ dashboard_users
    \/ dataflow
    \/ dataflows
    \/ dataflow_datasources
    \/ dataflow_upstream_dataflows
    \/ dataflow_users
    \/ datasets
    \/ dataset_users
    \/ datasets_upstream_dataflows
    \/ Import_init
    \/ Finish

Spec == Init /\ [][Next]_vars

----------------------------------------------------------------------------
\* Properties

\* The identifier a reference stands for: a string stands for itself, an
\* entity for its id.
Resolved(ref) == IF ref.t = "obj" THEN Str(ref.v) ELSE ref

ReferenceOps ==
    {"app_users", "dashboards", "dashboard_subscriptions", "dashboard_tiles",
     "dashboard_users", "dataflows", "dataflow_datasources",
     "dataflow_upstream_dataflows", "dataflow_users", "datasets",
     "dataset_users", "datasets_upstream_dataflows"}

ScopedListOps == {"dashboards", "dataflows", "datasets"}

QueryOps == {"apps", "dashboards", "dataflows", "datasets"}

ExpandOps == {"dashboards", "datasets"}

ListOps == {"apps", "dashboards", "dashboard_tiles", "dataflows", "datasets"}

AdminOps == ReferenceOps \cup {"apps", "dataflow", "add_encryption_key"}

\* The address under /admin that an operation asks for when every
\* reference in it is replaced by the identifier it stands for.
ResolvedAddress ==
    LET Id(name) == Resolved(arg[name]).v
        Scoped(segment) ==
            IF arg["group"] = None THEN <<segment>>
            ELSE <<"/groups/", Id("group"), segment>>
    IN  CASE op = "app_users" -> <<"/apps/", Id("app"), "/users">>
          [] op = "dashboards" -> Scoped("/dashboards")
          [] op = "dashboard_subscriptions" ->
                <<"/dashboards/", Id("dashboard"), "/subscriptions">>
          [] op = "dashboard_tiles" ->
                <<"/dashboards/", Id("dashboard"), "/tiles">>
          [] op = "dashboard_users" ->
                <<"/dashboards/", Id("dashboard"), "/users">>
          [] op = "dataflows" -> Scoped("/dataflows")
          [] op = "dataflow_datasources" ->
                <<"/dataflows/", Id("dataflow"), "/datasources">>
          [] op = "dataflow_upstream_dataflows" ->
                <<"/groups/", Id("group"), "/dataflows/", Id("dataflow"),
                  "/upstreamDataflows">>
          [] op = "dataflow_users" ->
                <<"/dataflows/", Id("dataflow"), "/users">>
          [] op = "datasets" -> Scoped("/datasets")
          [] op = "dataset_users" ->
                <<"/datasets/", Id("dataset"), "/users">>
          [] op = "datasets_upstream_dataflows" ->
                <<"/groups/", Id("group"), "/datasets/upstreamDataflows">>

\* C1: every operation that takes an id-or-object reference uses the
\* identifier the reference stands for (the string itself, or the entity's
\* id) both in the address it requests and in the parent reference it hands
\* to the entities it constructs, such as the dashboard_id of each Tile.
C1_ReferenceResolution ==
    pc = "done" /\ op \in ReferenceOps =>
        /\ Len(log) = 1
        /\ log[1].resource = BASE_URL \o <<"/admin">> \o ResolvedAddress
        /\ op = "dashboard_tiles" /\ result.t = "list" =>
            \A i \in 1..Len(result.items) :
                result.items[i].dashboard_id = Resolved(arg["dashboard"])

\* C2: in dashboards, dataflows and datasets every entity's parent scope is
\* the element's workspaceId when the element carries one, otherwise the
\* resolved caller scope, otherwise none.
C2_ParentScopeInheritance ==
    pc = "done" /\ op \in ScopedListOps /\ response.t = "list"
    /\ result.t = "list" /\ Len(result.items) = Len(response.items) =>
        \A i \in 1..Len(response.items) :
            LET scope == result.items[i].group_id
                element == response.items[i]
            IN  IF element["workspaceId"] # NoKey
                THEN scope = element["workspaceId"]
                ELSE IF arg["group"] # None
                THEN scope = Resolved(arg["group"])
                ELSE scope \in {None, NoKey}

\* The argument that each query parameter is taken from.
OptionOf(key) ==
    CASE key = "$expand" -> "expand"
      [] key = "$filter" -> "filter"
      [] key = "$skip" -> "skip"
      [] key = "$top" -> "top"

Accepted(name) ==
    CASE name = "apps" -> {"$top"}
      [] name = "dataflows" -> {"$filter", "$skip", "$top"}
      [] name \in {"dashboards", "datasets"} -> ParamKeys

OrganizationWide(resource) ==
    \A i \in 1..Len(resource) : resource[i] # "/groups/"

\* C4: a request of dashboards or datasets against the organization-wide
\* path carries no $expand value, whatever expand the caller passed.
C4_ExpandDroppedOrganizationWide ==
    pc = "done" /\ op \in ExpandOps /\ OrganizationWide(log[1].resource) =>
        log[1].params["$expand"] \in {NoKey, None}

\* C4 (amended): datasets called without a group asks the organization-wide
\* path and hands over no $expand entry, whatever expand the caller passed;
\* with a group it hands expand over as passed.  dashboards hands expand
\* over as passed on both paths.
C4_ExpandDroppedByDatasets ==
    /\ pc = "done" /\ op = "datasets" =>
        IF arg["group"] = None
        THEN /\ log[1].resource = BASE_URL \o <<"/admin", "/datasets">>
             /\ log[1].params["$expand"] = NoKey
        ELSE log[1].params["$expand"] = arg["expand"]
    /\ pc = "done" /\ op = "dashboards" =>
        log[1].params["$expand"] = arg["expand"]

\* A datasets call without a group that was passed an expand value has
\* asked /admin/datasets without $expand.
C4_Witness ==
    /\ pc = "done"
    /\ op = "datasets"
    /\ arg["group"] = None
    /\ arg["expand"] = Str("tables")
    /\ OrganizationWide(log[1].resource)
    /\ log[1].params["$expand"] = NoKey

\* C5: for a response that is a sequence, a list operation returns a list
\* of the same length whose i-th entity is built from the i-th element: its
\* identity is the element's id and its raw payload is the element.  Nothing
\* is sorted, dropped or merged, and [] gives [].
C5_ListMirrorsResponse ==
    pc = "done" /\ op \in ListOps /\ response.t = "list" =>
        /\ result.t = "list"
        /\ Len(result.items) = Len(response.items)
        /\ \A i \in 1..Len(response.items) :
            /\ result.items[i].id =
                (IF response.items[i]["id"] = NoKey THEN None
                 ELSE response.items[i]["id"])
            /\ result.items[i].raw = response.items[i]

\* A datasets call answered with two elements of the same id has returned
\* two entities.
C5_Witness ==
    /\ pc = "done"
    /\ op = "datasets"
    /\ response.t = "list"
    /\ Len(response.items) = 2
    /\ response.items[1]["id"] = Str("a")
    /\ response.items[2]["id"] = Str("a")
    /\ response.items[1] # response.items[2]
    /\ result.t = "list"
    /\ Len(result.items) = 2

\* C6: an Import constructed with a raw payload, whatever mapping it is, is
\* loaded with that payload; one constructed without stays unloaded; the
\* constructor makes no transport call either way.
C6_PreHydratedImport ==
    pc = "done" /\ op = "Import" =>
        /\ log = <<>>
        /\ arg["raw"].t = "dict" => imp.loaded /\ imp.raw = arg["raw"]
        /\ arg["raw"].t = "none" => ~imp.loaded /\ imp.raw = NoRaw

\* C7: an Import's resource_path is /groups/{identity of p}/imports/{i} for
\* a parent scope p (a string or a Group) and /imports/{i} without one, and
\* its base_path is BASE_URL followed by resource_path.
C7_ImportAddress ==
    pc = "done" /\ op = "Import" =>
        /\ imp.resource_path =
            (IF arg["group_id"] = None
             THEN <<"/imports/", arg["id"].v>>
             ELSE <<"/groups/", Resolved(arg["group_id"]).v, "/imports/",
                    arg["id"].v>>)
        /\ imp.base_path = BASE_URL \o imp.resource_path

\* C8: Admin.dataflow returns a Dataflow entity for both kinds of
\* reference: for an id, after one GET of /admin/dataflows/{id}/export, a
\* scope-less entity holding the response as raw payload and the response's
\* objectId as identity; for a Dataflow entity, an entity with that
\* entity's identity.
C8_DataflowReturnsEntity ==
    pc = "done" /\ op = "dataflow" =>
        IF arg["dataflow"].t = "str"
        THEN /\ Len(log) = 1
             /\ log[1].method = "GET"
             /\ log[1].resource =
                    BASE_URL
                    \o <<"/admin", "/dataflows/", arg["dataflow"].v, "/export">>
             /\ response.t = "dict" /\ response.d["objectId"] # NoKey =>
                    /\ result.t = "entity"
                    /\ result.ent.kind = "Dataflow"
                    /\ result.ent.group_id = None
                    /\ result.ent.raw = response.d
                    /\ result.ent.id = response.d["objectId"]
        ELSE /\ result.t = "entity"
             /\ result.ent.kind = "Dataflow"
             /\ result.ent.id = Resolved(arg["dataflow"])

\* C9: a list operation answered with something that is not a sequence, and
\* Admin.dataflow answered with a document that has no objectId, end in a
\* failure: never in an empty list or an entity without identity.
C9_ShapeMismatchSurfaced ==
    /\ pc = "done" /\ op \in ListOps /\ response.t = "dict" =>
        result.t = "error"
    /\ pc = "done" /\ op = "dataflow"
       /\ (response.t = "list"
           \/ (response.t = "dict" /\ response.d["objectId"] = NoKey)) =>
        result.t = "error"

\* C10: every Admin operation makes exactly one transport call, a POST for
\* add_encryption_key and a GET for the others; when that call fails the
\* failure reaches the caller, nothing else is returned, and the Admin
\* object's session, resource_path and base_path are as constructed.
C10_OneRequestPerOperation ==
    pc = "done" /\ op \in AdminOps =>
        /\ Len(log) = 1
        /\ log[1].method = (IF op = "add_encryption_key" THEN "POST" ELSE "GET")
        /\ response.t = "error" => result = Raise(TransportError)
        /\ session = "session"
        /\ resource_path = <<"/admin">>
        /\ base_path = BASE_URL \o <<"/admin">>

====
